---- MODULE Spec2Model ----
\* ASCII video converter (src/ascii_video.py): the glyph mapper, the luminance
\* sampler, the file-mode frame renderer, the convert_video pipeline and the
\* GUI's start_conversion, as state machines.
\*
\* Numbers that the source computes in floating point (v / 255, w / cols,
\* tile_w / scale, out_w / img_w) are computed here in exact rational
\* arithmetic on integers; a scale factor S is the pair num/den. On every
\* input the specifications below draw, the source's double arithmetic yields
\* the same integers.
EXTENDS Integers, Sequences, FiniteSets, TLC

VARIABLES
    procs,      \* the convert_video activations, in the order they were started
    video,      \* the decoded input file: the (height, width) of each frame
    platform,   \* what the machine's libraries and tools may answer
    sigint,     \* a cancellation signal (SIGINT) has been sent to the process
    clicks,     \* number of Start clicks handled by start_conversion
    guiErrors,  \* number of "Select a valid video file." dialogs shown
    pure        \* inputs and result of the pure function under study

vars == <<procs, video, platform, sigint, clicks, guiErrors, pure>>

\* ---------------------------------------------------------------- bounds
MaxFrames == 2
MaxThreads == 2
MaxClicks == 3
MaxRamp == 13
MaxH == 6
MaxW == 6
MaxCols == 4
MaxCharW == 3
MaxCharH == 3
MaxPad == 2
MaxRows == 3
MaxCalls == 2

\* ------------------------------------------------------ program constants
MaxGray == 255
DefaultFps == 24
MinCharW == 8
MinCharH == 16
Padding == 6

Max2(a, b) == IF a >= b THEN a ELSE b

\* ASCII_CHARS = ".:-=+*#%@/\\|"  (twelve characters, dark to light)
ASCII_CHARS == <<".", ":", "-", "=", "+", "*", "#", "%", "@", "/", "\\", "|">>

\* scale=0.43
DefaultScale == [num |-> 43, den |-> 100]

\* ------------------------------------------------------------ Glyph Mapper
\* A mapper that scales by len(chars) instead of len(chars) - 1.
get_idx_scaled_by_len(val, chars) == (val * Len(chars)) \div MaxGray

\* idx = int((val / 255) * (len(chars) - 1))
get_idx(val, chars) == (val * (Len(chars) - 1)) \div MaxGray

\* return chars[idx]; an index past the end raises IndexError, and Python
\* counts a negative index from the end.
get_char_for_gray(val, chars) ==
    LET idx == get_idx(val, chars)
        n == Len(chars)
    IN  IF idx >= 0 /\ idx < n THEN chars[idx + 1]
        ELSE IF idx < 0 /\ idx >= -n THEN chars[n + idx + 1]
        ELSE "IndexError"

\* ------------------------------------------------------- Luminance Sampler
\* A sampler that forgets the max(1, ...) floor.
new_h_unfloored(h, w, cols, scale) == (h * cols * scale.num) \div (w * scale.den)

\* tile_w = w / new_w; tile_h = tile_w / scale; new_h = max(1, int(h / tile_h))
new_h_of(h, w, cols, scale) ==
    Max2(1, (h * cols * scale.num) \div (w * scale.den))

\* cv2.resize(frame_gray, (new_w, new_h), interpolation=cv2.INTER_AREA): a grid
\* of new_h rows and new_w columns; every sample is the mean of a source
\* region, which for a frame of one uniform brightness is that brightness.
resize(frame_gray, new_w, new_h) ==
    [r \in 1..new_h |-> [c \in 1..new_w |-> frame_gray.gray]]

frame_to_ascii_lines(frame_gray, cols, scale, chars) ==
    LET h == frame_gray.h
        w == frame_gray.w
        new_w == cols
        new_h == new_h_of(h, w, cols, scale)
        small == resize(frame_gray, new_w, new_h)
    IN  [r \in 1..new_h |->
            [c \in 1..new_w |-> get_char_for_gray(small[r][c], chars)]]

\* ---------------------------------------------------------- Frame Renderer
\* max((len(line) for line in lines), default=1)
max_cols_of(lines) ==
    IF Len(lines) = 0 THEN 1
    ELSE CHOOSE m \in {Len(lines[i]) : i \in 1..Len(lines)} :
            \A i \in 1..Len(lines) : Len(lines[i]) <= m

\* if n % 2 != 0: n += 1
make_even(n) == IF n % 2 # 0 THEN n + 1 ELSE n

\* A renderer that leaves the height as computed.
image_size_height_unrounded(char_w, char_h, max_cols, rows, padding) ==
    [w |-> make_even(char_w * max_cols + padding * 2),
     h |-> char_h * rows + padding * 2]

\* img_w, img_h and the rounding of both to even
image_size(char_w, char_h, max_cols, rows, padding) ==
    [w |-> make_even(char_w * max_cols + padding * 2),
     h |-> make_even(char_h * rows + padding * 2)]

\* font is the bounding box PIL measures for "M": [w, h]. The returned image
\* is represented by its pixel size.
render_ascii_to_image(lines, font, padding) ==
    LET char_w == IF font.w <= 0 THEN MinCharW ELSE font.w
        char_h == IF font.h <= 0 THEN MinCharH ELSE font.h
        max_cols == max_cols_of(lines)
        rows == Max2(1, Len(lines))
    IN  image_size(char_w, char_h, max_cols, rows, padding)

\* ------------------------------------------------------------------ paths
\* A path is a sequence of one-character strings.
Dot == "."
Sep == "/"
AviExt == <<".", "a", "v", "i">>
WithAudioSuffix ==
    <<"_", "w", "i", "t", "h", "_", "a", "u", "d", "i", "o", ".", "m", "p", "4">>
DefaultOutput ==
    <<"a", "s", "c", "i", "i", "_", "o", "u", "t", ".", "m", "p", "4">>

\* str.rfind as a 1-based position, 0 when absent
rfind(p, ch) ==
    LET S == {i \in 1..Len(p) : p[i] = ch}
    IN  IF S = {} THEN 0 ELSE CHOOSE i \in S : \A j \in S : j <= i

\* os.path.splitext (posixpath): the extension starts at the last dot of the
\* last component, unless only dots precede it there.
splitext(p) ==
    LET sepIndex == rfind(p, Sep)
        dotIndex == rfind(p, Dot)
    IN  IF dotIndex > sepIndex
           /\ \E i \in (sepIndex + 1)..(dotIndex - 1) : p[i] # Dot
        THEN <<SubSeq(p, 1, dotIndex - 1), SubSeq(p, dotIndex, Len(p))>>
        ELSE <<p, <<>>>>

\* A fallback that appends ".avi" to the whole path.
alt_path_appended(output_path) == output_path \o AviExt

\* alt_path = os.path.splitext(output_path)[0] + ".avi"
alt_path_of(output_path) == splitext(output_path)[1] \o AviExt

\* out_with_audio = os.path.splitext(output_path)[0] + "_with_audio.mp4"
out_with_audio_of(output_path) == splitext(output_path)[1] \o WithAudioSuffix

\* ------------------------------------------------------------- merge_audio
\* ffmpeg is what shutil.which and subprocess.run meet: "absent" (not on PATH),
\* "ok" (exit status 0) or "fail" (CalledProcessError). The result is
\* (success, message kind, number of external tool invocations).
merge_audio(ffmpeg) ==
    IF ffmpeg = "absent"
    THEN [success |-> FALSE, msg |-> "FFmpeg not found in PATH", runs |-> 0]
    ELSE IF ffmpeg = "ok"
    THEN [success |-> TRUE, msg |-> "stderr", runs |-> 1]
    ELSE [success |-> FALSE, msg |-> "stderr", runs |-> 1]

\* ------------------------------------------------- convert_video: the state
\* One activation of convert_video. thread is "main" for a direct call and
\* "worker" for a threading.Thread started by start_conversion.
NewProc(thread, output_path, cols, fps, font_size, save_mode, merge_audio_opt) ==
    [thread |-> thread,
     output_arg |-> output_path,
     cols |-> cols,
     fps_arg |-> fps,
     font_size |-> font_size,
     save_mode |-> save_mode,
     merge_audio_opt |-> merge_audio_opt,
     pc |-> "start",
     capOpened |-> FALSE,       \* cap.isOpened() was true
     capOpen |-> FALSE,         \* cap holds the input source
     capReleases |-> 0,         \* calls of cap.release()
     pos |-> 0,                 \* frames read so far
     fps |-> 0,
     font |-> [w |-> 0, h |-> 0],
     writers |-> <<>>,          \* every cv2.VideoWriter object constructed
     writer |-> 0,              \* the local `writer`: an index, 0 for None
     output_path |-> output_path,
     writes |-> <<>>,           \* the calls of writer.write, in order
     printed |-> <<>>,          \* the frames printed to the terminal
     dialogs |-> <<>>,          \* the messagebox calls, in order
     merged |-> "none",         \* what merge_audio met, "none" if not called
     ffmpegRuns |-> 0,          \* subprocess.run invocations
     outcome |-> "running",
     afterCancel |-> 0]         \* frames printed after the signal was sent

Running(p) == p.pc \in {"start", "setup", "loop"}
Ended(p) == p.pc \in {"returned", "raised"}

\* writer.release() when `writer` is not None
ReleaseWriter(ws, i) ==
    IF i = 0 THEN ws ELSE [ws EXCEPT ![i].releases = @ + 1]

NewWriter(path, codec, fps, w, h, opened) ==
    [path |-> path, codec |-> codec, fps |-> fps, w |-> w, h |-> h,
     opened |-> opened, releases |-> 0]

\* the finally clause: if writer: writer.release(); cap.release()
Finally(p) ==
    [p EXCEPT !.writers = ReleaseWriter(p.writers, p.writer),
              !.capOpen = FALSE,
              !.capReleases = @ + 1]

\* gray = cv2.cvtColor(frame, ...); lines = frame_to_ascii_lines(gray, cols=cols)
LinesOfFrame(p) ==
    LET shape == video[p.pos + 1]
        gray == [h |-> shape[1], w |-> shape[2], gray |-> 128]
    IN  frame_to_ascii_lines(gray, p.cols, DefaultScale, ASCII_CHARS)

\* The frame handed to writer.write for a rendered image of img_w x img_h and
\* a canvas of out_w x out_h: the image itself when the sizes agree, otherwise
\* the image scaled by min(out_w / img_w, out_h / img_h) and centred on a
\* canvas of zeros.
FrameToWrite(img_w, img_h, out_w, out_h) ==
    IF <<img_w, img_h>> # <<out_w, out_h>>
    THEN LET byWidth == out_w * img_h <= out_h * img_w
             num0 == IF byWidth THEN out_w ELSE out_h
             den0 == IF byWidth THEN img_w ELSE img_h
             num == IF num0 <= 0 THEN 1 ELSE num0
             den == IF num0 <= 0 THEN 1 ELSE den0
             new_w == Max2(1, (img_w * num) \div den)
             new_h == Max2(1, (img_h * num) \div den)
         IN  [w |-> out_w, h |-> out_h, boxed |-> TRUE,
              img_w |-> img_w, img_h |-> img_h,
              inner_w |-> new_w, inner_h |-> new_h,
              x |-> (out_w - new_w) \div 2, y |-> (out_h - new_h) \div 2]
    ELSE [w |-> img_w, h |-> img_h, boxed |-> FALSE,
          img_w |-> img_w, img_h |-> img_h,
          inner_w |-> img_w, inner_h |-> img_h, x |-> 0, y |-> 0]

\* writer.write(to_write) inside try/except: ok is FALSE when the call raised
\* and the frame was skipped with a warning.
WriteFrame(p, fr, ok) ==
    Append(p.writes,
           [writer |-> p.writer, w |-> fr.w, h |-> fr.h, boxed |-> fr.boxed,
            img_w |-> fr.img_w, img_h |-> fr.img_h,
            inner_w |-> fr.inner_w, inner_h |-> fr.inner_h,
            x |-> fr.x, y |-> fr.y, ok |-> ok])

\* ------------------------------------------------------------ input sets
\* (height, width) of the frames a video may hold
Shapes == {<<4, 4>>, <<8, 2>>}
Videos == UNION {[1..n -> Shapes] : n \in 0..MaxFrames}
\* What the libraries and tools of a machine may answer, each a set of
\* possible answers:
\*   canOpen        cap.isOpened()
\*   in_fps         cap.get(cv2.CAP_PROP_FPS)
\*   fontFile       os.path.exists of a candidate font path
\*   fonts          the bounding box PIL measures for "M" under the loaded font
\*   primaryOpens   writer.isOpened() for mp4v
\*   fallbackOpens  writer.isOpened() for MJPG
\*   gets           the kind of answer of writer.get (GetPair)
\*   writeOk        writer.write returns (TRUE) or raises (FALSE)
\*   late           time.time() - last_time has reached the frame period
\*   ffmpeg         "absent" (not on PATH), "ok" (exit status 0), "fail"
AnyPlatform ==
    [canOpen |-> BOOLEAN,
     in_fps |-> {0, 25},
     fontFile |-> BOOLEAN,
     fonts |-> {[w |-> 3, h |-> 5], [w |-> 0, h |-> 0]},
     primaryOpens |-> BOOLEAN,
     fallbackOpens |-> BOOLEAN,
     gets |-> {"unsupported", "stripes", "size"},
     writeOk |-> BOOLEAN,
     late |-> BOOLEAN,
     ffmpeg |-> {"absent", "ok", "fail"}]
\* A desktop with the DejaVu font, a working mp4v encoder and no ffmpeg.
DesktopPlatform ==
    [canOpen |-> {TRUE},
     in_fps |-> {25},
     fontFile |-> {TRUE},
     fonts |-> {[w |-> 3, h |-> 5]},
     primaryOpens |-> {TRUE},
     fallbackOpens |-> {TRUE},
     gets |-> {"unsupported"},
     writeOk |-> {TRUE},
     late |-> {FALSE},
     ffmpeg |-> {"absent"}]
OutputPaths ==
    {<<"o", ".", "m", "p", "4">>, <<"o">>, <<".", "o">>, <<"d", ".", "d", "/", "o">>}
FpsArgs == {0, 30}
FontSizes == {0, 12}
ColsArgs == {2}
\* What int(writer.get(cv2.CAP_PROP_FRAME_WIDTH) or 0) and the same for
\* FRAME_HEIGHT answer for writer wr: 0 for a property the backend does not
\* support, -1 where identifier 3 is read as the writer's stripe count, or
\* the size the writer was opened with.
GetPair(kind, wr) ==
    IF kind = "unsupported" THEN <<0, 0>>
    ELSE IF kind = "stripes" THEN <<-1, 0>>
    ELSE <<wr.w, wr.h>>

Dialog(kind, title, path, msg) ==
    [kind |-> kind, title |-> title, path |-> path, msg |-> msg]

SetProc(t, q) ==
    /\ procs' = [procs EXCEPT ![t] = q]
    /\ UNCHANGED <<video, platform, sigint, clicks, guiErrors, pure>>

\* ---------------------------------------------- convert_video: the actions
\* cap = cv2.VideoCapture(input_path); if not cap.isOpened(): showerror; return
OpenInput ==
    \E t \in DOMAIN procs : \E canOpen \in platform.canOpen :
        LET p == procs[t] IN
        /\ p.pc = "start"
        /\ SetProc(t,
            IF canOpen
            THEN [p EXCEPT !.pc = "setup", !.capOpened = TRUE, !.capOpen = TRUE]
            ELSE [p EXCEPT !.pc = "returned", !.outcome = "open_error",
                           !.dialogs = Append(@, Dialog("error", "Error", <<>>, "Cannot open"))])

\* fps = fps if fps > 0 else (in_fps if in_fps > 0 else 24.0)
resolve_fps(fps, in_fps) ==
    IF fps > 0 THEN fps ELSE IF in_fps > 0 THEN in_fps ELSE DefaultFps

\* Frame-rate and font setup, before the try statement. ImageFont.truetype
\* raises for a size that is not positive; the error leaves convert_video
\* without passing through the finally clause.
Setup ==
    \E t \in DOMAIN procs : \E in_fps \in platform.in_fps, fontFile \in platform.fontFile, font \in platform.fonts :
        LET p == procs[t] IN
        /\ p.pc = "setup"
        /\ SetProc(t,
            IF fontFile /\ p.font_size <= 0
            THEN [p EXCEPT !.pc = "raised", !.outcome = "setup_error",
                           !.fps = resolve_fps(p.fps_arg, in_fps)]
            ELSE [p EXCEPT !.pc = "loop", !.font = font,
                           !.fps = resolve_fps(p.fps_arg, in_fps)])

\* One iteration in terminal mode: clear, print the lines, sleep for what is
\* left of the frame period (sleep_for > 0) or not at all; a late frame is
\* printed all the same. The loop reads no stop flag.
TerminalFrame ==
    \E t \in DOMAIN procs : \E late \in platform.late :
        LET p == procs[t] IN
        /\ p.pc = "loop" /\ ~p.save_mode
        /\ p.pos < Len(video)
        /\ LET lines == LinesOfFrame(p) IN
           SetProc(t,
            [p EXCEPT !.pos = @ + 1,
                      !.printed = Append(@, [rows |-> Len(lines), cols |-> max_cols_of(lines),
                                             slept |-> ~late]),
                      !.afterCancel = IF sigint THEN @ + 1 ELSE @])

\* Lines 161-179: the writer is created on the first rendered frame, with the
\* primary codec and then once with the fallback.
InitWriter(p, img, primaryOpens, fallbackOpens) ==
    LET primary == NewWriter(p.output_path, "mp4v", p.fps, img.w, img.h, primaryOpens)
        alt_path == alt_path_of(p.output_path)
        fallback == NewWriter(alt_path, "MJPG", p.fps, img.w, img.h, fallbackOpens)
    IN  IF primaryOpens
        THEN [p EXCEPT !.writers = Append(@, primary), !.writer = Len(p.writers) + 1]
        ELSE LET ws == Append(Append(p.writers, [primary EXCEPT !.releases = 1]), fallback)
             IN  IF fallbackOpens
                 THEN [p EXCEPT !.writers = ws, !.writer = Len(ws),
                                !.output_path = alt_path]
                 ELSE Finally(
                        [p EXCEPT !.writers = ws, !.writer = Len(ws),
                                  !.dialogs = Append(@, Dialog("error", "Error", <<>>,
                                                        "Failed to open video writer")),
                                  !.capOpen = FALSE, !.capReleases = @ + 1,
                                  !.pc = "returned", !.outcome = "writer_error"])

\* One iteration in save mode while writer is None.
SaveFirstFrame ==
    \E t \in DOMAIN procs : \E primaryOpens \in platform.primaryOpens, fallbackOpens \in platform.fallbackOpens,
                            ok \in platform.writeOk :
        LET p == procs[t] IN
        /\ p.pc = "loop" /\ p.save_mode /\ p.writer = 0
        /\ p.pos < Len(video)
        /\ LET img == render_ascii_to_image(LinesOfFrame(p), p.font, Padding)
               q == InitWriter([p EXCEPT !.pos = @ + 1], img, primaryOpens, fallbackOpens)
           IN  SetProc(t,
                IF q.pc = "returned" THEN q
                ELSE [q EXCEPT !.writes =
                        WriteFrame(q, FrameToWrite(img.w, img.h, img.w, img.h), ok)])

\* Lines 181-185: the canvas size of a later frame is asked of the writer; a
\* non-positive answer is replaced by the frame's own size.
canvas_size(got, img) ==
    IF got[1] <= 0 \/ got[2] <= 0 THEN <<img.w, img.h>> ELSE got

\* One iteration in save mode once the writer exists.
SaveNextFrame ==
    \E t \in DOMAIN procs : \E ok \in platform.writeOk :
        LET p == procs[t] IN
        /\ p.pc = "loop" /\ p.save_mode /\ p.writer # 0
        /\ p.pos < Len(video)
        /\ \E kind \in platform.gets :
            LET got == GetPair(kind, p.writers[p.writer])
                img == render_ascii_to_image(LinesOfFrame(p), p.font, Padding)
                out == canvas_size(got, img)
            IN  SetProc(t,
                 [p EXCEPT !.pos = @ + 1,
                           !.writes = WriteFrame(p, FrameToWrite(img.w, img.h, out[1], out[2]), ok)])

\* cap.read() reports the end of the stream: break, lines 214-227, finally.
EndOfStream ==
    \E t \in DOMAIN procs : \E ffmpeg \in platform.ffmpeg :
        LET p == procs[t] IN
        /\ p.pc = "loop"
        /\ p.pos = Len(video)
        /\ LET released == [p EXCEPT !.writers = ReleaseWriter(p.writers, p.writer),
                                     !.capOpen = FALSE, !.capReleases = @ + 1]
               done == Dialog("info", "Done", p.output_path, "ASCII video saved to")
               r == merge_audio(ffmpeg)
               audio ==
                 IF r.success
                 THEN Dialog("info", "Audio Merge", out_with_audio_of(p.output_path), "Audio merged")
                 ELSE Dialog("warning", "Audio Merge", <<>>, r.msg)
               reported ==
                 IF ~p.save_mode THEN released
                 ELSE IF ~p.merge_audio_opt
                 THEN [released EXCEPT !.dialogs = Append(@, done)]
                 ELSE [released EXCEPT !.dialogs = Append(Append(@, done), audio),
                                       !.merged = ffmpeg,
                                       !.ffmpegRuns = @ + r.runs]
           IN  SetProc(t, [Finally(reported) EXCEPT !.pc = "returned", !.outcome = "done"])

\* An exception other than KeyboardInterrupt raised while a frame is
\* processed (cvtColor, resize, rendering): finally, then it propagates.
FrameError ==
    \E t \in DOMAIN procs :
        LET p == procs[t] IN
        /\ p.pc = "loop"
        /\ p.pos < Len(video)
        /\ SetProc(t, [Finally([p EXCEPT !.pos = @ + 1])
                        EXCEPT !.pc = "raised", !.outcome = "frame_error"])

\* KeyboardInterrupt, which Python raises in the main thread only. Inside the
\* try statement it is caught and the finally clause runs; during setup it
\* propagates.
Interrupt ==
    \E t \in DOMAIN procs :
        LET p == procs[t] IN
        /\ p.thread = "main"
        /\ p.pc \in {"setup", "loop"}
        /\ SetProc(t,
            IF p.pc = "loop"
            THEN [Finally(p) EXCEPT !.pc = "returned", !.outcome = "interrupted"]
            ELSE [p EXCEPT !.pc = "raised", !.outcome = "interrupted"])

NoPure == [fn |-> "none"]

\* A direct call convert_video(...) on the main thread.
Init ==
    /\ video \in Videos
    /\ \E output_path \in OutputPaths, cols \in ColsArgs, fps \in FpsArgs,
          font_size \in FontSizes, save_mode \in BOOLEAN, merge_audio_opt \in BOOLEAN :
            procs = <<NewProc("main", output_path, cols, fps, font_size,
                              save_mode, merge_audio_opt)>>
    /\ platform = AnyPlatform
    /\ sigint = FALSE
    /\ clicks = 0
    /\ guiErrors = 0
    /\ pure = NoPure

Next ==
    \/ OpenInput
    \/ Setup
    \/ TerminalFrame
    \/ SaveFirstFrame
    \/ SaveNextFrame
    \/ EndOfStream
    \/ FrameError
    \/ Interrupt

Spec == Init /\ [][Next]_vars

\* ------------------------------------------------------------------- GUI
\* What the entry fields may hold when Start is clicked.
OutputEntries == {<<>>, <<"o", ".", "m", "p", "4">>}
FpsEntries == {0}
FontEntries == {12}

\* start_conversion: a missing video file is reported; otherwise a new daemon
\* thread running convert_video is started. Nothing records that a thread is
\* already running.
start_conversion ==
    /\ clicks < MaxClicks
    /\ clicks' = clicks + 1
    /\ \E exists \in BOOLEAN, entry_output \in OutputEntries, cols \in ColsArgs,
          fps \in FpsEntries, font_size \in FontEntries,
          save_mode \in BOOLEAN, merge_audio_opt \in BOOLEAN :
        IF ~exists
        THEN /\ guiErrors' = guiErrors + 1
             /\ UNCHANGED procs
        ELSE /\ Len(procs) < MaxThreads
             /\ procs' = Append(procs,
                    NewProc("worker",
                            IF entry_output = <<>> THEN DefaultOutput ELSE entry_output,
                            cols, fps, font_size, save_mode, merge_audio_opt))
             /\ UNCHANGED guiErrors
    /\ UNCHANGED <<video, platform, sigint, pure>>

\* The caller signals cancellation (SIGINT). Python raises KeyboardInterrupt
\* in the main thread only; a worker running convert_video is told nothing.
Cancel ==
    /\ ~sigint
    /\ sigint' = TRUE
    /\ UNCHANGED <<procs, video, platform, clicks, guiErrors, pure>>

\* The window is up, no conversion has been started.
InitGui ==
    /\ video \in {v \in Videos : Len(v) = MaxFrames /\ \A i \in 1..Len(v) : v[i] = v[1]}
    /\ procs = <<>>
    /\ platform = DesktopPlatform
    /\ sigint = FALSE
    /\ clicks = 0
    /\ guiErrors = 0
    /\ pure = NoPure

NextGui ==
    \/ start_conversion
    \/ Cancel
    \/ OpenInput
    \/ Setup
    \/ TerminalFrame
    \/ SaveFirstFrame
    \/ SaveNextFrame
    \/ EndOfStream
    \/ FrameError

SpecGui == InitGui /\ [][NextGui]_vars

\* ------------------------------------------- the pure functions, applied
Idle ==
    /\ procs = <<>>
    /\ video = <<>>
    /\ platform = AnyPlatform
    /\ sigint = FALSE
    /\ clicks = 0
    /\ guiErrors = 0

\* A ramp of k characters: ASCII_CHARS, cut or extended.
Ramp(k) ==
    [i \in 1..k |-> IF i <= Len(ASCII_CHARS) THEN ASCII_CHARS[i] ELSE ToString(i)]

InitGlyph ==
    /\ Idle
    /\ \E val \in 0..MaxGray, k \in 1..MaxRamp :
        pure = [fn |-> "glyph", val |-> val, chars |-> Ramp(k),
                done |-> FALSE, out |-> ""]

ApplyGlyph ==
    /\ pure.fn = "glyph" /\ ~pure.done
    /\ pure' = [pure EXCEPT !.done = TRUE,
                            !.out = get_char_for_gray(pure.val, pure.chars)]
    /\ UNCHANGED <<procs, video, platform, sigint, clicks, guiErrors>>

SpecGlyph == InitGlyph /\ [][ApplyGlyph]_vars

Scales ==
    {DefaultScale, [num |-> 1, den |-> 1], [num |-> 1, den |-> 2], [num |-> 2, den |-> 1]}
Grays == {0, 128, MaxGray}

InitLines ==
    /\ Idle
    /\ \E h \in 1..MaxH, w \in 1..MaxW, cols \in 1..MaxCols, scale \in Scales, gray \in Grays :
        pure = [fn |-> "lines", frame |-> [h |-> h, w |-> w, gray |-> gray],
                cols |-> cols, scale |-> scale, done |-> FALSE, lines |-> <<>>]

ApplyLines ==
    /\ pure.fn = "lines" /\ ~pure.done
    /\ pure' = [pure EXCEPT !.done = TRUE,
                            !.lines = frame_to_ascii_lines(pure.frame, pure.cols,
                                                           pure.scale, ASCII_CHARS)]
    /\ UNCHANGED <<procs, video, platform, sigint, clicks, guiErrors>>

SpecLines == InitLines /\ [][ApplyLines]_vars

InitRender ==
    /\ Idle
    /\ \E fw \in -1..MaxCharW, fh \in -1..MaxCharH, padding \in (0..MaxPad) \cup {Padding},
          rows \in 1..MaxRows, cols \in 1..MaxCols :
        pure = [fn |-> "render", font |-> [w |-> fw, h |-> fh], padding |-> padding,
                rows |-> rows, cols |-> cols,
                lines |-> [r \in 1..rows |-> [c \in 1..cols |-> "#"]],
                sizes |-> <<>>]

ApplyRender ==
    /\ pure.fn = "render" /\ Len(pure.sizes) < MaxCalls
    /\ pure' = [pure EXCEPT !.sizes =
                    Append(@, render_ascii_to_image(pure.lines, pure.font, pure.padding))]
    /\ UNCHANGED <<procs, video, platform, sigint, clicks, guiErrors>>

SpecRender == InitRender /\ [][ApplyRender]_vars

PositionIn(ch, chars) == CHOOSE i \in 1..Len(chars) : chars[i] = ch

\* C8: get_char_for_gray is total and monotonic: for every v in 0..255 and a
\* ramp of K >= 1 characters a character of the ramp is returned, at the index
\* floor(v / 255 * (K-1)) which lies in [0, K-1], and a darker or equal
\* brightness v1 <= v never maps to a later index.
C8_TotalAndMonotonic ==
    (pure.fn = "glyph" /\ pure.done) =>
        LET K == Len(pure.chars) IN
        /\ \E i \in 1..K : pure.out = pure.chars[i]
        /\ LET idx == PositionIn(pure.out, pure.chars) - 1 IN
            /\ idx * MaxGray <= pure.val * (K - 1)
            /\ pure.val * (K - 1) < (idx + 1) * MaxGray
            /\ \A v1 \in 0..pure.val :
                LET c1 == get_char_for_gray(v1, pure.chars) IN
                /\ \E i \in 1..K : c1 = pure.chars[i]
                /\ PositionIn(c1, pure.chars) - 1 <= idx

\* C8 witness: the brightest value mapped to the last character of a ramp of
\* more than one character.
C8_Witness ==
    /\ pure.fn = "glyph" /\ pure.done
    /\ pure.val = MaxGray
    /\ Len(pure.chars) > 1
    /\ pure.out = pure.chars[Len(pure.chars)]

\* C9: for fixed glyph metrics (non-positive ones replaced by 8 and 16), fixed
\* padding and a fixed grid shape, every call of render_ascii_to_image returns
\* the same pixel size, (char_w*cols + 2*padding, char_h*rows + 2*padding) with
\* each dimension rounded up to the next even number.
C9_FixedEvenSize ==
    pure.fn = "render" =>
        LET char_w == IF pure.font.w <= 0 THEN 8 ELSE pure.font.w
            char_h == IF pure.font.h <= 0 THEN 16 ELSE pure.font.h
            raw_w == char_w * pure.cols + 2 * pure.padding
            raw_h == char_h * pure.rows + 2 * pure.padding
        IN  \A i \in 1..Len(pure.sizes) :
            /\ pure.sizes[i].w % 2 = 0 /\ pure.sizes[i].h % 2 = 0
            /\ pure.sizes[i].w \in {raw_w, raw_w + 1}
            /\ pure.sizes[i].h \in {raw_h, raw_h + 1}
            /\ pure.sizes[i] = pure.sizes[1]

\* C9 witness: two calls were made where the width needed rounding up and the
\* measured glyph height was not positive.
C9_Witness ==
    /\ pure.fn = "render"
    /\ Len(pure.sizes) = 2
    /\ pure.font.h <= 0
    /\ pure.font.w > 0
    /\ (pure.font.w * pure.cols) % 2 = 1
    /\ pure.sizes[2].w = pure.font.w * pure.cols + 2 * pure.padding + 1

\* C1: in a save-mode run every frame passed to writer.write has exactly the
\* (width, height) with which its writer was opened on the first rendered
\* frame, whatever writer.get answers; a frame rendered at another size is
\* scaled to fit inside that size and centred on a canvas of that size.
C1_WrittenFramesHaveEstablishedSize ==
    \A t \in DOMAIN procs :
        LET p == procs[t] IN
        \A i \in 1..Len(p.writes) :
            LET f == p.writes[i]
                wr == p.writers[f.writer]
            IN  /\ f.w = wr.w /\ f.h = wr.h
                /\ <<f.img_w, f.img_h>> # <<wr.w, wr.h>> =>
                    /\ f.boxed
                    /\ f.inner_w <= wr.w /\ f.inner_h <= wr.h
                    /\ f.x = (wr.w - f.inner_w) \div 2
                    /\ f.y = (wr.h - f.inner_h) \div 2

\* C2: on every exit of convert_video after the input source was opened
\* (end of stream, writer-open abort, interrupt, or an error raised at any
\* step, setup before the frame loop included) the input source has been
\* released and so has every writer that was created.
C2_ReleasedOnEveryExit ==
    \A t \in DOMAIN procs :
        LET p == procs[t] IN
        (Ended(p) /\ p.capOpened) =>
            /\ ~p.capOpen
            /\ p.capReleases >= 1
            /\ \A i \in 1..Len(p.writers) : p.writers[i].releases >= 1

\* The .avi path each output path must fall back to.
ExpectedAvi ==
    (<<"o", ".", "m", "p", "4">> :> <<"o", ".", "a", "v", "i">>)
    @@ (<<"o">> :> <<"o", ".", "a", "v", "i">>)
    @@ (<<".", "o">> :> <<".", "o", ".", "a", "v", "i">>)
    @@ (<<"d", ".", "d", "/", "o">> :> <<"d", ".", "d", "/", "o", ".", "a", "v", "i">>)

DoneDialogs(p) ==
    {i \in 1..Len(p.dialogs) : p.dialogs[i].title = "Done"}

\* C3: in save mode the first writer is opened with mp4v at the given output
\* path; when it fails to open exactly one further writer is tried, MJPG at
\* the output path with its extension replaced by .avi. If the fallback opens,
\* every frame is written to it and the path reported as saved is the .avi
\* path. If it fails too, the run ends with a writer error reported, the
\* input source released, no frame written, no Done notification and no
\* audio remux.
C3_FallbackOnceThenAbort ==
    \A t \in DOMAIN procs :
        LET p == procs[t]
            ws == p.writers
        IN  (p.save_mode /\ Len(ws) >= 1) =>
            /\ Len(ws) <= 2
            /\ ws[1].codec = "mp4v" /\ ws[1].path = p.output_arg
            /\ ws[1].opened => Len(ws) = 1
            /\ ~ws[1].opened =>
                /\ Len(ws) = 2
                /\ ws[2].codec = "MJPG"
                /\ ws[2].path = ExpectedAvi[p.output_arg]
                /\ <<ws[2].w, ws[2].h, ws[2].fps>> = <<ws[1].w, ws[1].h, ws[1].fps>>
                /\ ws[2].opened =>
                    /\ \A i \in 1..Len(p.writes) : p.writes[i].writer = 2
                    /\ Len(p.writes) = IF p.outcome = "frame_error" THEN p.pos - 1 ELSE p.pos
                    /\ p.outcome # "writer_error"
                    /\ p.outcome = "done" =>
                        /\ DoneDialogs(p) # {}
                        /\ \A i \in DoneDialogs(p) : p.dialogs[i].path = ExpectedAvi[p.output_arg]
                /\ ~ws[2].opened =>
                    /\ p.pc = "returned" /\ p.outcome = "writer_error"
                    /\ Len(p.dialogs) = 1 /\ p.dialogs[1].kind = "error"
                    /\ ~p.capOpen /\ p.capReleases >= 1
                    /\ p.writes = <<>>
                    /\ p.merged = "none" /\ p.ffmpegRuns = 0

\* C3 witness: the primary codec failed, the fallback opened, two frames went
\* to it and the run reported the .avi path of an output path that had
\* another extension.
C3_Witness ==
    \E t \in DOMAIN procs :
        LET p == procs[t] IN
        /\ Len(p.writers) = 2 /\ p.writers[2].opened
        /\ p.outcome = "done"
        /\ Len(p.writes) = 2
        /\ p.output_arg = <<"o", ".", "m", "p", "4">>
        /\ DoneDialogs(p) # {}

\* C4: when cancellation is signalled while a pipeline started by
\* start_conversion runs in terminal mode, the pipeline emits at most one
\* further frame, then leaves the frame loop with the input source released.
C4_CancelStopsWithinOneFrame ==
    \A t \in DOMAIN procs :
        LET p == procs[t] IN
        (p.thread = "worker" /\ ~p.save_mode) =>
            /\ p.afterCancel <= 1
            /\ (sigint /\ Ended(p) /\ p.capOpened) => (~p.capOpen /\ p.outcome # "setup_error")

\* C5: every writer object created by convert_video has been released exactly
\* once when the run ends, never zero times and never twice.
C5_WriterReleasedExactlyOnce ==
    \A t \in DOMAIN procs :
        LET p == procs[t] IN
        Ended(p) => \A i \in 1..Len(p.writers) : p.writers[i].releases = 1

\* C6: at any time at most one convert_video thread is active.
C6_SinglePipeline ==
    Cardinality({t \in DOMAIN procs : Running(procs[t])}) <= 1

\* C10: in a save-mode run with audio merge requested and the muxing tool
\* absent, the primary video has been produced (writer opened, every frame
\* written, writer released, Done reported with the output path) before the
\* remux is attempted; merge_audio fails without invoking an external tool
\* and the outcome is a warning, the run ending normally.
C10_VideoProducedBeforeRemuxWarning ==
    \A t \in DOMAIN procs :
        LET p == procs[t]
            n == Len(p.dialogs)
        IN  (p.save_mode /\ p.merge_audio_opt /\ p.merged = "absent") =>
            /\ p.writer # 0
            /\ p.writers[p.writer].opened
            /\ p.writers[p.writer].releases >= 1
            /\ Len(p.writes) = p.pos
            /\ p.ffmpegRuns = 0
            /\ n >= 2
            /\ p.dialogs[n - 1].title = "Done"
            /\ p.dialogs[n - 1].path = p.writers[p.writer].path
            /\ p.dialogs[n].kind = "warning"
            /\ p.pc = "returned" /\ p.outcome = "done"

====
